---- MODULE Spec2Model ----
(***************************************************************************)
(* CAN-Translation (src/code.py): the bit-field codec (extract_signal,     *)
(* inject_signal), the translation engine (translate_and_send,            *)
(* process_can_message) and the main bus loop, as state machines.          *)
(*                                                                         *)
(* Bytes are integers 0..255, byte strings are sequences (data[i] of the   *)
(* code is data[i + 1] here).  A call that can raise returns a record with *)
(* an ok field; ok = FALSE is the exception.                               *)
(***************************************************************************)
EXTENDS Integers, Sequences, FiniteSets, TLC

VARIABLES
    cpc, args, buffer0, buffer, decoded,            \* codec harness
    tpc, input_db, output_db, message, can_id,      \* translation engine
    sent, result,
    pc, bus, remaining, event                       \* main loop

vars == <<cpc, args, buffer0, buffer, decoded,
          tpc, input_db, output_db, message, can_id, sent, result,
          pc, bus, remaining, event>>

codecVars == <<cpc, args, buffer0, buffer, decoded>>
engineVars == <<tpc, input_db, output_db, message, can_id, sent, result>>
loopVars == <<pc, bus, remaining, event>>

-----------------------------------------------------------------------------
(* Bounds of the model *)

\* longest field the codec harness draws (covering bytes stay within 3)
MaxLen == 16
\* the codec harness draws every value up to MaxValue, plus the extremes
MaxValue == 9
\* most frames in_waiting() reports in one poll
MaxBatch == 2
\* most messages in a drawn layout table
MaxDbLen == 2

\* bytearray(8): the output buffer of a frame
FrameBytes == 8

-----------------------------------------------------------------------------
(* Python integer and bytes primitives *)

\* x >> s, for x >= 0
Shr(x, s) == x \div (2 ^ s)

\* x << s
Shl(x, s) == x * (2 ^ s)

RECURSIVE BitAnd(_, _)
\* x & y, for x, y >= 0
BitAnd(x, y) ==
    IF x = 0 \/ y = 0 THEN 0
    ELSE ((x % 2) * (y % 2)) + 2 * BitAnd(x \div 2, y \div 2)

RECURSIVE BitOr(_, _)
\* x | y, for x, y >= 0
BitOr(x, y) ==
    IF x = 0 THEN y
    ELSE IF y = 0 THEN x
    ELSE (IF (x % 2) + (y % 2) > 0 THEN 1 ELSE 0) + 2 * BitOr(x \div 2, y \div 2)

\* b & ~mask, for a byte b and a mask in 0..255
AndNot(b, mask) == BitAnd(b, 255 - mask)

\* s[::-1]
Reverse(s) == [i \in 1..Len(s) |-> s[Len(s) + 1 - i]]

RECURSIVE FromLittle(_)
FromLittle(bs) ==
    IF bs = <<>> THEN 0 ELSE bs[1] + 256 * FromLittle(Tail(bs))

\* int.from_bytes(bs, byteorder)
FromBytes(bs, byteorder) ==
    IF byteorder = "little" THEN FromLittle(bs) ELSE FromLittle(Reverse(bs))

\* value.to_bytes(n, byteorder): OverflowError for a negative value or one
\* that does not fit n bytes
ToBytes(value, n, byteorder) ==
    IF value < 0 \/ value >= 256 ^ n
    THEN [ok |-> FALSE, bytes |-> <<>>]
    ELSE LET little == [i \in 1..n |-> (value \div (256 ^ (i - 1))) % 256]
         IN  [ok |-> TRUE,
              bytes |-> IF byteorder = "little" THEN little ELSE Reverse(little)]

-----------------------------------------------------------------------------
(* BitField codec *)

extract_signal(data, start_bit, length, byte_order, is_signed) ==
    LET num_bits == start_bit + length
        num_bytes == (num_bits + 7) \div 8
        byte_start == start_bit \div 8
        byte_end == (start_bit + length - 1) \div 8
        sliced == SubSeq(data, byte_start + 1, byte_end + 1)
        extracted_bytes == IF byte_order = "Motorola" THEN Reverse(sliced) ELSE sliced
        bit_start == start_bit % 8
        whole == FromBytes(extracted_bytes,
                           IF byte_order = "Motorola" THEN "big" ELSE "little")
        mask == Shl(1, length) - 1
        masked == BitAnd(Shr(whole, bit_start), mask)
    IN  IF Len(data) < num_bytes
        THEN [ok |-> FALSE, val |-> 0]
        ELSE [ok |-> TRUE,
              val |-> IF is_signed /\ BitAnd(masked, Shl(1, length - 1)) # 0
                      THEN masked - Shl(1, length)
                      ELSE masked]

\* one pass of the loop "for i in range(len(value_bytes))" of inject_signal
InjectByte(output_data, value_bytes, i, byte_start, bit_start, length) ==
    LET n == Len(value_bytes)
        shift == IF i = 0 THEN bit_start ELSE 0
        mask0 == IF i = 0 THEN Shr(255, shift) ELSE 255
        mask == IF i = n - 1
                THEN BitAnd(mask0, Shr(255, 8 - (length - (n - 1) * 8)))
                ELSE mask0
        old == output_data[byte_start + i + 1]
    IN  [output_data EXCEPT ![byte_start + i + 1] =
            BitOr(AndNot(old, mask), BitAnd(Shr(value_bytes[i + 1], shift), mask))]

RECURSIVE InjectLoop(_, _, _, _, _, _)
InjectLoop(output_data, value_bytes, i, byte_start, bit_start, length) ==
    IF i >= Len(value_bytes) THEN output_data
    ELSE InjectLoop(InjectByte(output_data, value_bytes, i, byte_start, bit_start, length),
                    value_bytes, i + 1, byte_start, bit_start, length)

inject_signal(output_data, value, start_bit, length, byte_order) ==
    LET num_bits == start_bit + length
        num_bytes == (num_bits + 7) \div 8
        byte_start == start_bit \div 8
        byte_end == (start_bit + length - 1) \div 8
        big == ToBytes(value, byte_end - byte_start + 1, "big")
        conv == IF byte_order = "Motorola"
                THEN [ok |-> big.ok, bytes |-> Reverse(big.bytes)]
                ELSE ToBytes(value, byte_end - byte_start + 1, "little")
        bit_start == start_bit % 8
    IN  IF Len(output_data) < num_bytes THEN [ok |-> FALSE, data |-> output_data]
        ELSE IF ~conv.ok THEN [ok |-> FALSE, data |-> output_data]
        ELSE [ok |-> TRUE,
              data |-> InjectLoop(output_data, conv.bytes, 0, byte_start, bit_start, length)]

-----------------------------------------------------------------------------
(* Signal databases: json.load of the two layout tables.  A table is the  *)
(* sequence of its (key, config) items in iteration order; a config holds  *)
(* its id and the sequence of its signals in iteration order.  Optional    *)
(* keys of a signal may be absent from the record.                         *)
(* factor and offset are fractions <<numerator, denominator>>.             *)

\* d.get(key, default)
Get(d, key, default) == IF key \in DOMAIN d THEN d[key] ELSE default

\* where a "for ... : if ...: break" loop stops: the least of the indices
\* that pass the test, 0 when none does
FirstIndex(hits) ==
    IF hits = {} THEN 0 ELSE CHOOSE i \in hits : \A j \in hits : i <= j

\* signal_name in config["signals"]
HasSignal(config, signal_name) ==
    \E i \in 1..Len(config.signals) : config.signals[i].name = signal_name

\* config["signals"][signal_name]
SignalOf(config, signal_name) ==
    config.signals[FirstIndex({i \in 1..Len(config.signals) :
                                  config.signals[i].name = signal_name})]

\* int(n / d): truncation toward zero, d # 0
Trunc(n, d) ==
    LET num == IF d < 0 THEN 0 - n ELSE n
        den == IF d < 0 THEN 0 - d ELSE d
    IN  IF num >= 0 THEN num \div den ELSE 0 - ((0 - num) \div den)

\* (value * factor) + offset, as a fraction
apply_scale_and_offset(value, factor, offset) ==
    <<value * factor[1] * offset[2] + offset[1] * factor[2], factor[2] * offset[2]>>

\* v & mask for a mask (1 << length) - 1 and any integer v (two's complement)
AndMask(v, mask) == IF v >= 0 THEN BitAnd(v, mask) ELSE v % (mask + 1)

-----------------------------------------------------------------------------
(* translate_and_send *)

\* lines 127-132 with the id test lost: the first config is taken
FindInputConfig_AnyId(db, id) == IF db = <<>> THEN 0 ELSE 1

\* lines 127-132: the first input config whose id is the frame's, 0 if none
FindInputConfig(db, id) == FirstIndex({c \in 1..Len(db) : db[c].id = id})

\* lines 143-148: the first output config that holds the signal, 0 if none
FindOutputConfig(db, signal_name) ==
    FirstIndex({c \in 1..Len(db) : HasSignal(db[c], signal_name)})

RECURSIVE PackBytes(_, _, _, _, _)
\* lines 188-190: OR the bytes of packed_value into translated_data
PackBytes(translated_data, packed_value, byte_start, num_bytes, i) ==
    IF i >= num_bytes THEN translated_data
    ELSE PackBytes(
            IF i + byte_start < Len(translated_data)
            THEN [translated_data EXCEPT ![i + byte_start + 1] =
                    BitOr(@, BitAnd(Shr(packed_value, i * 8), 255))]
            ELSE translated_data,
            packed_value, byte_start, num_bytes, i + 1)

\* lines 141-196: the body of the loop over the input message's signals
TranslateSignal(translated_data, signal, data, db_out) ==
    LET k == FindOutputConfig(db_out, signal.name)
        output_signal == SignalOf(db_out[k], signal.name)
        raw == extract_signal(data, signal.start_bit, signal.length,
                              Get(signal, "byte_order", "Motorola"),
                              Get(signal, "is_signed", FALSE))
        scaled_value == apply_scale_and_offset(raw.val, Get(signal, "factor", <<1, 1>>),
                                               Get(signal, "offset", <<0, 1>>))
        byte_start == output_signal.start_bit \div 8
        bit_start == output_signal.start_bit % 8
        bit_end == bit_start + output_signal.length
        num_bytes == (bit_end + 7) \div 8
        mask == Shl(1, output_signal.length) - 1
        packed_value == Shl(AndMask(Trunc(scaled_value[1], scaled_value[2]), mask), bit_start)
    IN  IF k = 0 THEN translated_data
        ELSE IF ~raw.ok THEN translated_data
        ELSE PackBytes(translated_data, packed_value, byte_start, num_bytes, 0)

RECURSIVE TranslateSignals(_, _, _, _, _)
TranslateSignals(translated_data, signals, i, data, db_out) ==
    IF i > Len(signals) THEN translated_data
    ELSE TranslateSignals(TranslateSignal(translated_data, signals[i], data, db_out),
                          signals, i + 1, data, db_out)

\* lines 198-203: the id of the first output config that holds one of the
\* input message's signal names; none |-> TRUE is None
TranslatedId(input_message_config, db_out) ==
    LET k == FirstIndex({c \in 1..Len(db_out) :
                 \E i \in 1..Len(input_message_config.signals) :
                     HasSignal(db_out[c], input_message_config.signals[i].name)})
    IN  IF k = 0 THEN [none |-> TRUE, id |-> 0] ELSE [none |-> FALSE, id |-> db_out[k].id]

\* line 205: not translated_id
NotTranslatedId(translated_id) == translated_id.none \/ translated_id.id = 0

\* translate_and_send: the frames handed to can_out.send, in order
translate_and_send(msg, db_in, db_out) ==
    LET c == FindInputConfig(db_in, msg.id)
        input_message_config == db_in[c]
        translated_data ==
            TranslateSignals([i \in 1..FrameBytes |-> 0], input_message_config.signals, 1,
                             msg.data, db_out)
        translated_id == TranslatedId(input_message_config, db_out)
    IN  IF c = 0 THEN <<>>
        ELSE IF NotTranslatedId(translated_id) THEN <<>>
        ELSE << [id |-> translated_id.id, data |-> SubSeq(translated_data, 1, 8)] >>

-----------------------------------------------------------------------------
(* process_can_message *)

NoneResult == [none |-> TRUE, id |-> 0, data |-> <<>>]

\* lines 103-111: one output config that holds the signal
ProcessOut(st, out_cfg, signal_name, extracted_value) ==
    LET out_signal == SignalOf(out_cfg, signal_name)
        offset == Get(out_signal, "offset", <<0, 1>>)
        factor == Get(out_signal, "factor", <<1, 1>>)
        value == Trunc((extracted_value * offset[2] - offset[1]) * factor[2],
                       offset[2] * factor[1])
        inj == inject_signal(st.data, value, out_signal.start_bit, out_signal.length,
                             out_signal.byte_order)
    IN  IF factor[1] = 0 \/ "byte_order" \notin DOMAIN out_signal \/ ~inj.ok
        THEN [st EXCEPT !.raised = TRUE]
        ELSE [data |-> inj.data, message |-> [none |-> FALSE, id |-> out_cfg.id],
              raised |-> FALSE]

RECURSIVE ProcessOuts(_, _, _, _, _)
\* lines 99-111: the loop over the output table, left by the first exception
ProcessOuts(st, db_out, j, signal_name, extracted_value) ==
    IF j > Len(db_out) \/ st.raised THEN st
    ELSE ProcessOuts(
            IF HasSignal(db_out[j], signal_name)
            THEN ProcessOut(st, db_out[j], signal_name, extracted_value)
            ELSE st,
            db_out, j + 1, signal_name, extracted_value)

\* lines 90-115: one input signal
ProcessSignal(st, signal_config, data, db_out) ==
    LET complete == {"byte_order", "is_signed"} \subseteq DOMAIN signal_config
        extracted == extract_signal(data, signal_config.start_bit, signal_config.length,
                                    signal_config.byte_order, signal_config.is_signed)
    IN  IF ~complete THEN st
        ELSE IF ~extracted.ok THEN st
        ELSE [ProcessOuts(st, db_out, 1, signal_config.name, extracted.val)
                EXCEPT !.raised = FALSE]

RECURSIVE ProcessSignals(_, _, _, _, _)
ProcessSignals(st, signals, i, data, db_out) ==
    IF i > Len(signals) THEN st
    ELSE ProcessSignals(ProcessSignal(st, signals[i], data, db_out),
                        signals, i + 1, data, db_out)

\* process_can_message: input_dbc is looked up by key
process_can_message(id, data, db_in, db_out) ==
    LET c == FirstIndex({k \in 1..Len(db_in) : db_in[k].key = id})
        st == ProcessSignals([data |-> [i \in 1..FrameBytes |-> 0], message |-> NoneResult,
                              raised |-> FALSE],
                             db_in[c].signals, 1, data, db_out)
    IN  IF c = 0 THEN NoneResult
        ELSE IF st.message.none THEN NoneResult
        ELSE [none |-> FALSE, id |-> st.message.id, data |-> st.data]

-----------------------------------------------------------------------------
(* Codec harness: inject_signal on a drawn buffer, then extract_signal *)

ByteOrders == {"Intel", "Motorola"}

\* fill patterns of the initial buffer
FillBytes == {0, 255, 165}

\* the values drawn for a field of the given length
FieldValues(length, is_signed) ==
    IF is_signed
    THEN {v \in ((0 - MaxValue)..MaxValue) \cup {0 - 2 ^ (length - 1), 2 ^ (length - 1) - 1} :
            0 - 2 ^ (length - 1) <= v /\ v <= 2 ^ (length - 1) - 1}
    ELSE {v \in (0..MaxValue) \cup {2 ^ (length - 1), 2 ^ length - 2, 2 ^ length - 1} :
            0 <= v /\ v < 2 ^ length}

NoResult == [ok |-> FALSE, val |-> 0]

EngineIdle ==
    /\ tpc = "off" /\ input_db = <<>> /\ output_db = <<>>
    /\ message = [id |-> 0, data |-> <<>>] /\ can_id = "" /\ sent = <<>>
    /\ result = [none |-> TRUE, id |-> 0, data |-> <<>>]

LoopIdle == pc = "off" /\ bus = 0 /\ remaining = 0 /\ event = "none"

CodecIdle ==
    /\ cpc = "off"
    /\ args = [start_bit |-> 0, length |-> 1, byte_order |-> "Intel",
               value |-> 0, is_signed |-> FALSE]
    /\ buffer0 = <<>> /\ buffer = <<>> /\ decoded = NoResult

CodecInit ==
    /\ cpc = "start"
    /\ \E length \in 1..MaxLen, is_signed \in BOOLEAN, byte_order \in ByteOrders :
         \E start_bit \in 0..(8 * FrameBytes - length), value \in FieldValues(length, is_signed) :
            args = [start_bit |-> start_bit, length |-> length, byte_order |-> byte_order,
                    value |-> value, is_signed |-> is_signed]
    /\ \E fill \in FillBytes : buffer0 = [i \in 1..FrameBytes |-> fill]
    /\ buffer = buffer0
    /\ decoded = NoResult
    /\ EngineIdle /\ LoopIdle

Inject ==
    /\ cpc = "start"
    /\ LET r == inject_signal(buffer, args.value, args.start_bit, args.length, args.byte_order)
       IN  /\ buffer' = r.data
           /\ cpc' = IF r.ok THEN "injected" ELSE "raised"
    /\ UNCHANGED <<args, buffer0, decoded>>
    /\ UNCHANGED <<engineVars, loopVars>>

Extract ==
    /\ cpc = "injected"
    /\ decoded' = extract_signal(buffer, args.start_bit, args.length, args.byte_order,
                                 args.is_signed)
    /\ cpc' = "extracted"
    /\ UNCHANGED <<args, buffer0, buffer>>
    /\ UNCHANGED <<engineVars, loopVars>>

CodecNext == Inject \/ Extract

SpecCodec == CodecInit /\ [][CodecNext]_vars

-----------------------------------------------------------------------------
(* The layout tables and frames the engine is run on *)

Sig(name, start_bit, length, byte_order, is_signed, factor, offset) ==
    [name |-> name, start_bit |-> start_bit, length |-> length, byte_order |-> byte_order,
     is_signed |-> is_signed, factor |-> factor, offset |-> offset]

\* a signal that leaves every optional key out
BareSig(name, start_bit, length) ==
    [name |-> name, start_bit |-> start_bit, length |-> length]

InputMessages == {
    [key |-> "EngineIn", id |-> 256, signals |->
        << Sig("Speed", 0, 16, "Intel", FALSE, <<1, 10>>, <<0, 1>>) >>],
    [key |-> "BodyIn", id |-> 257, signals |->
        << Sig("Speed", 0, 8, "Intel", FALSE, <<1, 1>>, <<0, 1>>),
           Sig("Temp", 8, 8, "Intel", TRUE, <<1, 2>>, <<0 - 40, 1>>),
           Sig("Rpm", 48, 16, "Motorola", FALSE, <<2, 1>>, <<0, 1>>) >>],
    [key |-> "ClimateIn", id |-> 256, signals |->
        << Sig("Temp", 0, 8, "Intel", TRUE, <<1, 1>>, <<0, 1>>),
           BareSig("Load", 12, 4) >>],
    [key |-> "ZeroIn", id |-> 0, signals |->
        << Sig("Rpm", 4, 16, "Intel", FALSE, <<1, 1>>, <<0, 1>>) >>] }

OutputMessages == {
    [key |-> "EngineOut", id |-> 512, signals |->
        << Sig("Speed", 8, 16, "Intel", FALSE, <<1, 10>>, <<0, 1>>) >>],
    [key |-> "ZeroOut", id |-> 0, signals |->
        << Sig("Speed", 0, 16, "Intel", FALSE, <<1, 1>>, <<0, 1>>),
           Sig("Load", 16, 8, "Intel", FALSE, <<1, 1>>, <<0, 1>>) >>],
    [key |-> "ClimateOut", id |-> 513, signals |->
        << Sig("Temp", 4, 8, "Intel", TRUE, <<1, 1>>, <<0, 1>>) >>],
    [key |-> "RpmOut", id |-> 514, signals |->
        << Sig("Rpm", 32, 16, "Motorola", FALSE, <<1, 1>>, <<0, 1>>) >>],
    [key |-> "MixOut", id |-> 515, signals |->
        << Sig("Speed", 40, 8, "Intel", FALSE, <<1, 1>>, <<0, 1>>),
           Sig("Rpm", 60, 8, "Intel", FALSE, <<0, 1>>, <<0, 1>>) >>] }

\* the tables of at most MaxDbLen messages with distinct keys
Tables(messages) ==
    UNION { {t \in [1..n -> messages] : \A i, j \in 1..n : i # j => t[i].key # t[j].key} :
            n \in 1..MaxDbLen }

FrameIds == {0, 256, 257, 258}

Payloads == {
    <<>>,
    <<100>>,
    <<100, 0>>,
    <<100, 0, 0, 0, 0, 0, 0, 0>>,
    <<255, 128, 1, 2, 3, 4, 5, 6>>,
    <<7, 246, 90>> }

Frames == [id : FrameIds, data : Payloads]

\* the keys process_can_message is asked for
Keys == {"EngineIn", "BodyIn", "Absent"}

-----------------------------------------------------------------------------
(* Engine harness: one call of translate_and_send or process_can_message   *)
(* on drawn tables and a drawn frame                                       *)

EngineInit ==
    /\ tpc = "ready"
    /\ input_db \in Tables(InputMessages)
    /\ output_db \in Tables(OutputMessages)
    /\ message \in Frames
    /\ can_id \in Keys
    /\ sent = <<>>
    /\ result = NoneResult
    /\ CodecIdle /\ LoopIdle

TranslateAndSend ==
    /\ tpc = "ready"
    /\ sent' = translate_and_send(message, input_db, output_db)
    /\ tpc' = "translated"
    /\ UNCHANGED <<input_db, output_db, message, can_id, result>>
    /\ UNCHANGED <<codecVars, loopVars>>

ProcessCanMessage ==
    /\ tpc = "ready"
    /\ result' = process_can_message(can_id, message.data, input_db, output_db)
    /\ tpc' = "processed"
    /\ UNCHANGED <<input_db, output_db, message, can_id, sent>>
    /\ UNCHANGED <<codecVars, loopVars>>

EngineNext == TranslateAndSend \/ ProcessCanMessage

SpecEngine == EngineInit /\ [][EngineNext]_vars

-----------------------------------------------------------------------------
(* The main loop, lines 225-250.  bus is the bus being listened on; the    *)
(* frames it yields are translated and sent to the other bus.  event is    *)
(* what the last step met.                                                 *)

\* the tables the loop runs on
LoopTables ==
    { << t, u >> \in Tables(InputMessages) \X Tables(OutputMessages) :
        Len(t) = 1 /\ Len(u) = 1 /\ t[1].key \in {"EngineIn", "BodyIn"}
                   /\ u[1].key \in {"EngineOut", "ZeroOut"} }

LoopInit ==
    /\ pc = "listen" /\ bus = 1 /\ remaining = 0 /\ event = "none"
    /\ tpc = "off"
    /\ \E p \in LoopTables : input_db = p[1] /\ output_db = p[2]
    /\ message = [id |-> 0, data |-> <<>>] /\ can_id = "" /\ sent = <<>>
    /\ result = NoneResult
    /\ CodecIdle

\* leaving the "with ... listen" block of the bus: bus 2 follows bus 1,
\* sleep(1) follows bus 2
AfterBlock(b) == IF b = 1 THEN [pc |-> "listen", bus |-> 2] ELSE [pc |-> "sleep", bus |-> b]

\* lines 228 / 238: listen() returns a listener
ListenOk ==
    /\ pc = "listen"
    /\ pc' = "in_waiting" /\ event' = "listening"
    /\ UNCHANGED <<bus, remaining, engineVars, codecVars>>

\* lines 228 / 238 raise with no handler around the loop body: the program ends
ListenFault_Unhandled ==
    /\ pc = "listen"
    /\ pc' = "halted" /\ event' = "listen_fault"
    /\ UNCHANGED <<bus, remaining, engineVars, codecVars>>

\* lines 228 / 238 raise: the handler of line 247, then sleep(1)
ListenFault ==
    /\ pc = "listen"
    /\ pc' = "sleep" /\ event' = "listen_fault"
    /\ UNCHANGED <<bus, remaining, engineVars, codecVars>>

\* lines 229-231 / 239-241: message_count = in_waiting()
InWaiting ==
    /\ pc = "in_waiting"
    /\ \E message_count \in 0..MaxBatch :
         /\ remaining' = message_count
         /\ IF message_count = 0
            THEN pc' = AfterBlock(bus).pc /\ bus' = AfterBlock(bus).bus
            ELSE pc' = "receive" /\ bus' = bus
    /\ event' = "counted"
    /\ UNCHANGED <<engineVars, codecVars>>

InWaitingFault ==
    /\ pc = "in_waiting"
    /\ pc' = "sleep" /\ event' = "in_waiting_fault"
    /\ UNCHANGED <<bus, remaining, engineVars, codecVars>>

\* one pass of "for _ in range(message_count)" done
NextInBatch ==
    /\ remaining' = remaining - 1
    /\ IF remaining = 1
       THEN pc' = AfterBlock(bus).pc /\ bus' = AfterBlock(bus).bus
       ELSE pc' = "receive" /\ bus' = bus

\* lines 232-235 / 242-245: receive() yields a Message, translate_and_send
\* runs; a send the bus rejects raises inside translate_and_send, which
\* catches it (line 213) and returns
ReceiveTranslate ==
    /\ pc = "receive"
    /\ \E msg \in Frames, accepted \in BOOLEAN :
         /\ message' = msg
         /\ sent' = translate_and_send(msg, input_db, output_db)
         /\ event' = IF sent' # <<>> /\ ~accepted THEN "send_rejected" ELSE "translated"
    /\ NextInBatch
    /\ UNCHANGED <<tpc, input_db, output_db, can_id, result, codecVars>>

\* receive() yields something that is no Message (None on a timeout)
ReceiveNone ==
    /\ pc = "receive"
    /\ event' = "not_message"
    /\ NextInBatch
    /\ UNCHANGED <<engineVars, codecVars>>

\* receive() raises: the handler of line 247 ends the batch
ReceiveFault ==
    /\ pc = "receive"
    /\ pc' = "sleep" /\ event' = "receive_fault"
    /\ UNCHANGED <<bus, remaining, engineVars, codecVars>>

\* line 250, then the next pass of "while True"
Sleep ==
    /\ pc = "sleep"
    /\ pc' = "listen" /\ bus' = 1 /\ remaining' = 0 /\ event' = "slept"
    /\ UNCHANGED <<engineVars, codecVars>>

LoopNext ==
    \/ ListenOk \/ ListenFault
    \/ InWaiting \/ InWaitingFault
    \/ ReceiveTranslate \/ ReceiveNone \/ ReceiveFault
    \/ Sleep

SpecLoop == LoopInit /\ [][LoopNext]_vars

\* the interpreter always takes the loop's next step
FairLoop == SpecLoop /\ WF_vars(LoopNext)

-----------------------------------------------------------------------------
(* Notions the claims are stated in *)

\* bit p of a byte string: bit 0 is the least significant bit of byte 0
Bit(data, p) == (data[(p \div 8) + 1] \div (2 ^ (p % 8))) % 2

RECURSIVE FieldValue(_, _, _)
\* the unsigned value of the bits [start_bit, start_bit + length)
FieldValue(data, start_bit, length) ==
    IF length = 0 THEN 0
    ELSE Bit(data, start_bit) + 2 * FieldValue(data, start_bit + 1, length - 1)

ZeroFrame == [i \in 1..FrameBytes |-> 0]

\* round(n / d), halves to even, d # 0
Round(n, d) ==
    LET num == IF d < 0 THEN 0 - n ELSE n
        den == IF d < 0 THEN 0 - d ELSE d
        q == num \div den
        r == num - q * den
    IN  IF 2 * r < den THEN q
        ELSE IF 2 * r > den THEN q + 1
        ELSE IF q % 2 = 0 THEN q ELSE q + 1

\* the input message the frame's ID matches (0: none) and its signals
Matched == FirstIndex({k \in 1..Len(input_db) : input_db[k].id = message.id})
MatchedSignals == input_db[Matched].signals

\* the first output message that holds a name among the input message's signals
Selected ==
    FirstIndex({k \in 1..Len(output_db) :
        \E i \in 1..Len(MatchedSignals) : HasSignal(output_db[k], MatchedSignals[i].name)})

\* the raw value of an input signal in the received payload
Decoded(signal) ==
    extract_signal(message.data, signal.start_bit, signal.length,
                   Get(signal, "byte_order", "Motorola"), Get(signal, "is_signed", FALSE))

\* round((raw * in.factor + in.offset - out.offset) / out.factor)
RawOut(raw, in, out) ==
    LET scaled == apply_scale_and_offset(raw, Get(in, "factor", <<1, 1>>),
                                         Get(in, "offset", <<0, 1>>))
        off == Get(out, "offset", <<0, 1>>)
        fac == Get(out, "factor", <<1, 1>>)
    IN  Round((scaled[1] * off[2] - off[1] * scaled[2]) * fac[2],
              scaled[2] * off[2] * fac[1])

\* s without its i-th element
Without(s, i) == [k \in 1..(Len(s) - 1) |-> IF k < i THEN s[k] ELSE s[k + 1]]

\* the exceptions the handler of line 247 catches
LoopFaults == {"listen_fault", "in_waiting_fault", "receive_fault"}

Listening(b) == pc = "listen" /\ bus = b

-----------------------------------------------------------------------------
(* The claims *)

\* C1: inject_signal then extract_signal (unsigned) returns the value, for
\* every byte order, start_bit, bit_length <= 8, buffer and v < 2^bit_length.
C1_RoundTrip ==
    (cpc = "extracted" /\ args.length <= 8 /\ ~args.is_signed)
        => (decoded.ok /\ decoded.val = args.value)

\* C2: the sent frame holds, at the output signal's start_bit/length,
\* raw_out = round((raw * in.factor + in.offset - out.offset) / out.factor)
\* for every decoded signal of the input message the output message defines.
C2_ReEncoded ==
    (tpc = "translated" /\ Matched # 0 /\ sent # <<>>) =>
        \A i \in 1..Len(MatchedSignals) :
            LET in == MatchedSignals[i]
                out == SignalOf(output_db[Selected], in.name)
            IN  ( /\ HasSignal(output_db[Selected], in.name)
                  /\ Decoded(in).ok
                  /\ Get(out, "factor", <<1, 1>>)[1] # 0
                  /\ out.start_bit + out.length <= 8 * FrameBytes )
                => FieldValue(sent[1].data, out.start_bit, out.length)
                     = RawOut(Decoded(in).val, in, out) % (2 ^ out.length)

\* C3: inject_signal leaves every buffer bit outside
\* [start_bit, start_bit + bit_length) as it was.
C3_OutsideBitsKept ==
    (cpc \in {"injected", "extracted"}) =>
        \A p \in 0..(8 * FrameBytes - 1) :
            (p < args.start_bit \/ p >= args.start_bit + args.length)
                => Bit(buffer, p) = Bit(buffer0, p)

\* C4: a frame whose ID is the id of no input message makes
\* translate_and_send send nothing and leave both tables as they were;
\* process_can_message returns None for a can_id that is no key of the
\* input table.
C4_UnmappedDropped ==
    [][ /\ ( /\ tpc' = "translated"
             /\ \A i \in 1..Len(input_db) : input_db[i].id # message.id )
           => (sent' = <<>> /\ input_db' = input_db /\ output_db' = output_db)
        /\ ( /\ tpc' = "processed"
             /\ \A i \in 1..Len(input_db) : input_db[i].key # can_id )
           => (result' = NoneResult /\ input_db' = input_db /\ output_db' = output_db)
      ]_vars

\* a frame with an unmapped ID has gone through translate_and_send, with an
\* output table that holds signals of the input table
C4_Witness ==
    /\ tpc = "translated"
    /\ \A i \in 1..Len(input_db) : input_db[i].id # message.id
    /\ message.data # <<>>
    /\ \E i \in 1..Len(input_db), j \in 1..Len(output_db) :
         HasSignal(output_db[j], input_db[i].signals[1].name)

\* C5: a signed v in -2^(L-1) .. 2^(L-1)-1 injected into a zero-filled
\* buffer (Intel) does not raise and is extracted again with is_signed.
C5_SignedRoundTrip ==
    (args.is_signed /\ args.byte_order = "Intel" /\ buffer0 = ZeroFrame) =>
        /\ cpc # "raised"
        /\ cpc = "extracted" => (decoded.ok /\ decoded.val = args.value)

C7_OneOutputMessage ==
    (tpc = "translated" /\ Matched # 0 /\ sent # <<>>) =>
        /\ sent[1].id = output_db[Selected].id
        /\ \A p \in 0..(8 * FrameBytes - 1) :
             (\A j \in 1..Len(output_db[Selected].signals) :
                 LET out == output_db[Selected].signals[j]
                 IN  p < out.start_bit \/ p >= out.start_bit + out.length)
             => Bit(sent[1].data, p) = 0

\* C8: when extraction fails for every signal of the matched input message,
\* no frame is sent.
C8_NothingDecodedNothingSent ==
    ( /\ tpc = "translated" /\ Matched # 0
      /\ \A i \in 1..Len(MatchedSignals) : ~Decoded(MatchedSignals[i]).ok )
    => sent = <<>>

\* C9: when extraction fails for one signal while another signal decodes
\* and has an output counterpart, the frame is still sent and its payload is
\* the one the message without the failing signal yields.
C9_FailureIsolated ==
    (tpc = "translated" /\ Matched # 0) =>
        \A i \in 1..Len(MatchedSignals) :
            ( /\ ~Decoded(MatchedSignals[i]).ok
              /\ \E j \in 1..Len(MatchedSignals) :
                    /\ j # i
                    /\ Decoded(MatchedSignals[j]).ok
                    /\ FindOutputConfig(output_db, MatchedSignals[j].name) # 0 )
            => /\ Len(sent) = 1
               /\ sent[1].data = TranslateSignals(ZeroFrame, Without(MatchedSignals, i), 1,
                                                  message.data, output_db)

\* C10: whenever an output message holds a name among the input message's
\* signals, exactly one frame is sent, with the ID of the first such
\* message, ID 0 included; nothing is sent only when there is none.
C10_EveryIdForwarded ==
    (tpc = "translated" /\ Matched # 0) =>
        /\ Selected # 0 => (Len(sent) = 1 /\ sent[1].id = output_db[Selected].id)
        /\ Selected = 0 => sent = <<>>

====
